---- MODULE Spec2Model ----
(***************************************************************************)
(* PhotoObjectPlacer: the App component (mask canvas, undo history,        *)
(* pan transform, place / erase requests) as a state machine.              *)
(*                                                                         *)
(* React state and refs are the variables.  An event handler, a promise    *)
(* continuation or an image / reader callback is one action: JavaScript    *)
(* runs each of them to completion, and React commits the state they set   *)
(* (and runs the effects that depend on it) before the next one starts.    *)
(***************************************************************************)
EXTENDS Integers, Sequences, FiniteSets, Bags, TLC

(* ------------------------------------------------------------------ *)
(* Bounds of the model                                                  *)
(* ------------------------------------------------------------------ *)

\* base-image loads, saved snapshots and place / erase calls in one run of the
\* application flow (Spec)
MaxEvents == 3

(* ------------------------------------------------------------------ *)
(* Rationals (JavaScript numbers, kept exact)                           *)
(* ------------------------------------------------------------------ *)

Abs(i) == IF i < 0 THEN -i ELSE i

\* Each operation first binds the values of its arguments (the tuple p), so that
\* an argument is evaluated once however often the definition uses it.

\* greatest common divisor (Euclid)
RECURSIVE GCD(_, _)
GCD(a, b) ==
    CHOOSE g \in { IF p[2] = 0 THEN p[1] ELSE GCD(p[2], p[1] % p[2]) :
                   p \in { << a, b >> } } : TRUE

\* the fraction n/d (d # 0) in lowest terms with a positive denominator
Rat(n, d) ==
    CHOOSE r \in { [n |-> p[1] \div p[3], d |-> p[2] \div p[3]] :
                   p \in { << (IF d < 0 THEN -n ELSE n), Abs(d), GCD(Abs(n), Abs(d)) >> } } :
        TRUE

\* (common factors are taken out before multiplying, to keep the numbers small)
RInt(i) == [n |-> i, d |-> 1]
RAdd(a, b) ==
    CHOOSE r \in { Rat(p[1].n * (p[2].d \div p[3]) + p[2].n * (p[1].d \div p[3]),
                       (p[1].d \div p[3]) * p[2].d) :
                   p \in { << a, b, GCD(a.d, b.d) >> } } : TRUE
RSub(a, b) == RAdd(a, [n |-> -b.n, d |-> b.d])
RMul(a, b) ==
    CHOOSE r \in { Rat((p[1].n \div p[3]) * (p[2].n \div p[4]),
                       (p[1].d \div p[4]) * (p[2].d \div p[3])) :
                   p \in { << a, b, GCD(Abs(a.n), b.d), GCD(Abs(b.n), a.d) >> } } :
        TRUE
RDiv(a, b) == RMul(a, Rat(b.d, b.n))
RLe(a, b)  ==
    \E p \in { << a, b, GCD(a.d, b.d) >> } :
        p[1].n * (p[2].d \div p[3]) <= p[2].n * (p[1].d \div p[3])
RMin(a, b) == IF RLe(a, b) THEN a ELSE b
RMax(a, b) == IF RLe(a, b) THEN b ELSE a

(* ------------------------------------------------------------------ *)
(* Values                                                               *)
(* ------------------------------------------------------------------ *)

\* enum AppState
IDLE       == "IDLE"
PROCESSING == "PROCESSING"
COMPARING  == "COMPARING"

\* enum ToolType
BRUSH == "BRUSH"
HAND  == "HAND"

\* An image (a data URL) is known by its content: name is the photo it comes
\* from, gen the number of place / erase results applied to that photo, w and h
\* the size it decodes to.  Files are the photos the user can pick.
NoImage == [name |-> "null", gen |-> 0, w |-> 0, h |-> 0]

PhotoA == [name |-> "A", gen |-> 0, w |-> 1, h |-> 1]
PhotoB == [name |-> "B", gen |-> 0, w |-> 2, h |-> 1]
Files == { PhotoA, PhotoB }

\* sizes the service may answer with (it is free to pick the size)
ResultSizes == { <<1, 1>>, <<2, 1>> }

\* containerRef.current.clientWidth / clientHeight
ContainerW == 840
ContainerH == 840

\* containerRef.current.getBoundingClientRect().left / .top: the container lies
\* right of the sidebar (w-80) and below the header (h-14)
ContainerLeft == 320
ContainerTop  == 56

\* A canvas or an ImageData: w x h pixels, data the RGBA bytes row by row.
\* NoCanvas stands for maskCanvasRef.current = null.
NoCanvas == [w |-> 0, h |-> 0, data |-> <<>>]

\* lastPosRef.current = null
NoPos == [set |-> FALSE, x |-> 0, y |-> 0]

\* objectSource: null, or an uploaded object image
NoObject  == "null"
AnObject  == "image"

\* position (clientX, clientY) at which the brush's mouse events are delivered
MousePos == { [x |-> 321, y |-> 57] }

\* positions (clientX, clientY) of the mouse events of a pan or a zoom; the
\* handlers take whatever the event carries, client coordinate 0 included
ViewPos == { [x |-> 0, y |-> 0], [x |-> 321, y |-> 57] }

\* e.deltaY of a wheel event (only its sign is used)
WheelDeltas == { -100, 100 }

\* values the brush-size range input (min 5, max 100) can deliver
BrushInputs == { 5, 7, 98, 100 }

\* e.key of the brush-size shortcuts
BrushKeys == { "[", "-", "]", "=" }

\* clientX of the mouse events of a slider drag: left of the container, inside
\* it, right of it
SliderX == { 300, 530, 950, 1170 }

\* What one ctx.arc(...) + fill() covers: the coverage (0 none, 255 full, between
\* them an anti-aliased edge) of each pixel in row-major order.  The centre comes
\* from getImageCoords and the radius from brushSize; the rasterised footprint is
\* taken as the input: a disc whose edge grazes the first pixel and misses the
\* second.
Dabs == { <<1, 0>> }

(* ------------------------------------------------------------------ *)
(* Canvas operations                                                    *)
(* ------------------------------------------------------------------ *)

NPixels(c) == c.w * c.h

\* document.createElement('canvas') sized w x h: transparent black
NewCanvas(w, h) == [w |-> w, h |-> h, data |-> [i \in 1..(4 * w * h) |-> 0]]

\* ctx.clearRect(0, 0, c.width, c.height)
ClearRect(c) == NewCanvas(c.w, c.h)

\* ctx.getImageData(0, 0, c.width, c.height): a copy of the canvas's pixels
GetImageData(c) == [w |-> c.w, h |-> c.h, data |-> c.data]

\* ctx.putImageData(img, 0, 0): the pixels of img that fall inside the canvas
\* replace the canvas's, the others stay
PutImageData(c, img) ==
    [c EXCEPT !.data =
        [i \in 1..(4 * c.w * c.h) |->
            LET p   == (i - 1) \div 4
                col == p % c.w
                row == p \div c.w
                ch  == (i - 1) % 4
            IN  IF col < img.w /\ row < img.h
                THEN img.data[4 * (row * img.w + col) + ch + 1]
                ELSE c.data[i]]]

\* source-over of a source of alpha s on a destination of alpha d
CompositeAlpha(d, s) == s + (d * (255 - s)) \div 255

\* paintMask: fill the disc with '#ff0000', globalCompositeOperation 'source-over'
Fill(c, dab) ==
    [c EXCEPT !.data =
        [i \in 1..(4 * c.w * c.h) |->
            LET p   == (i - 1) \div 4 + 1
                ch  == (i - 1) % 4
                cov == IF p <= Len(dab) THEN dab[p] ELSE 0
            IN  IF cov = 0 THEN c.data[i]
                ELSE IF ch = 0 THEN 255
                ELSE IF ch = 3 THEN CompositeAlpha(c.data[4 * p], cov)
                ELSE 0]]

(* ------------------------------------------------------------------ *)
(* State                                                                *)
(* ------------------------------------------------------------------ *)

VARIABLES
    appState,        \* useState<AppState>
    baseImage,       \* useState<string | null>
    processedImage,  \* useState<string | null>
    tool,            \* useState<ToolType>
    transform,       \* useState<Transform>
    history,         \* useState<ImageData[]>
    objectSource,    \* useState<ObjectSource | null>
    mask,            \* maskCanvasRef.current
    isDragging,      \* isDraggingRef.current
    lastPos,         \* lastPosRef.current
    decoding,        \* bag of images whose mask-initialisation onload is pending
    requests,        \* bag of place / erase calls that have not settled
    alertMsg,        \* the last alert() shown
    apiKey,          \* whether process.env.API_KEY is set
    brushSize,       \* useState<number>(30)
    sliderPosition,  \* ComparisonSlider: useState(50)
    sliderDragging,  \* ComparisonSlider: useState(false) (isDragging)
    events           \* bookkeeping: the events counted against MaxEvents

\* the program's state
app == << appState, baseImage, processedImage, tool, transform, history,
          objectSource, mask, isDragging, lastPos, decoding, requests,
          alertMsg, apiKey, brushSize, sliderPosition, sliderDragging >>

vars == << app, events >>

viewVars  == << tool, transform, isDragging, lastPos >>
imageVars == << appState, baseImage, processedImage >>
maskVars  == << mask, history >>
callVars  == << requests, alertMsg >>
widgetVars == << brushSize, sliderPosition, sliderDragging >>

Init ==
    /\ appState = IDLE
    /\ baseImage = NoImage
    /\ processedImage = NoImage
    /\ tool = BRUSH
    /\ transform = [x |-> RInt(0), y |-> RInt(0), k |-> RInt(1)]
    /\ history = <<>>
    /\ objectSource = NoObject
    /\ mask = NoCanvas
    /\ isDragging = FALSE
    /\ lastPos = NoPos
    /\ decoding = EmptyBag
    /\ requests = EmptyBag
    /\ alertMsg = "none"
    /\ apiKey \in BOOLEAN
    /\ brushSize = 30
    /\ sliderPosition = RInt(50)
    /\ sliderDragging = FALSE
    /\ events = 0

(* ------------------------------------------------------------------ *)
(* Loading a base image, mask initialisation                            *)
(* ------------------------------------------------------------------ *)

\* useEffect(..., [baseImage]): runs after a commit in which baseImage changed;
\* with a base image and no mask canvas it starts decoding the image.
\* Gives the bag of pending decodes after the commit.
MaskInitEffect(oldBase, newBase, newMask) ==
    IF newBase # oldBase /\ newBase # NoImage /\ newMask = NoCanvas
    THEN decoding (+) SetToBag({newBase})
    ELSE decoding

\* fitImageToScreen(w, h)
FitImageToScreen(w, h) ==
    LET padding == 40
        scale == RMin(Rat(ContainerW - padding, w), Rat(ContainerH - padding, h))
    IN  [x |-> RDiv(RSub(RInt(ContainerW), RMul(RInt(w), scale)), RInt(2)),
         y |-> RDiv(RSub(RInt(ContainerH), RMul(RInt(h), scale)), RInt(2)),
         k |-> scale]

\* reader.onload of a base image (the body shared by handleFileUpload and
\* handleDrop with isBase)
LoadBase(file) ==
    /\ baseImage' = file
    /\ processedImage' = NoImage
    /\ appState' = IDLE
    /\ mask' = NoCanvas
    /\ history' = <<>>
    /\ decoding' = MaskInitEffect(baseImage, file, NoCanvas)
    /\ UNCHANGED << viewVars, objectSource, callVars, apiKey, widgetVars >>

\* reader.onload of an object image (isBase = false)
LoadObject ==
    /\ objectSource' = AnObject
    /\ UNCHANGED << imageVars, viewVars, maskVars, decoding, callVars, apiKey, widgetVars >>

\* handleFileUpload(e, isBase).  The base input is rendered while appState is
\* not COMPARING.  The FileReader's read is folded into the handler: handleDrop
\* is accepted in every appState, so a read that ends later reaches no state a
\* drop does not reach.
handleFileUpload(file, isBase) ==
    IF isBase
    THEN appState # COMPARING /\ LoadBase(file)
    ELSE LoadObject

\* handleDrop(e, isBase): the canvas container takes base images, the object
\* panel takes object images
handleDrop(file, isBase) ==
    IF isBase THEN LoadBase(file) ELSE LoadObject

\* the "x" button on the object preview: setObjectSource(null)
ClearObject ==
    /\ objectSource # NoObject
    /\ objectSource' = NoObject
    /\ UNCHANGED << imageVars, viewVars, maskVars, decoding, callVars, apiKey, widgetVars >>

\* img.onload of the mask-initialisation effect, for one pending decode.
\* getContext('2d') of the fresh canvas is taken to succeed.
ImgOnload(img) ==
    /\ BagIn(img, decoding)
    /\ decoding' = decoding (-) SetToBag({img})
    /\ mask' = ClearRect(NewCanvas(img.w, img.h))
    /\ history' = << GetImageData(ClearRect(NewCanvas(img.w, img.h))) >>
    /\ transform' = FitImageToScreen(img.w, img.h)
    /\ UNCHANGED << imageVars, tool, isDragging, lastPos, objectSource,
                    callVars, apiKey, widgetVars >>

(* ------------------------------------------------------------------ *)
(* Canvas interaction: brush, pan, undo, reset                          *)
(* ------------------------------------------------------------------ *)

\* The <canvas> is rendered unless the ComparisonSlider is shown in its place
CanvasShown ==
    ~(appState = COMPARING /\ baseImage # NoImage /\ processedImage # NoImage)

\* ... and the processing overlay lies above it while appState is PROCESSING
CanvasTakesMouse == CanvasShown /\ appState # PROCESSING

\* paintMask(x, y): no-op without a mask context
PaintMask(c, dab) == IF c = NoCanvas THEN c ELSE Fill(c, dab)

\* prev.slice(-n)
SliceLast(seq, n) ==
    IF Len(seq) <= n THEN seq ELSE SubSeq(seq, Len(seq) - n + 1, Len(seq))

\* saveHistory() on history h with mask canvas c: the value of history afterwards
SaveHistory(h, c) ==
    IF c # NoCanvas
    THEN Append(SliceLast(h, 10), GetImageData(c))
    ELSE h

\* a || b on numbers: 0 (like null and undefined) is falsy
JsOr(a, b) == IF a = 0 THEN b ELSE a

\* lastPosRef.current?.x || e.clientX
LastOr(coord, fallback) == IF lastPos.set THEN JsOr(coord, fallback) ELSE fallback

handleMouseDown(e, dab) ==
    /\ CanvasTakesMouse
    /\ IF appState # IDLE
       THEN UNCHANGED app
       ELSE /\ isDragging' = TRUE
            /\ lastPos' = [set |-> TRUE, x |-> e.x, y |-> e.y]
            /\ mask' = IF tool = BRUSH THEN PaintMask(mask, dab) ELSE mask
            /\ UNCHANGED << imageVars, tool, transform, history, objectSource,
                            decoding, callVars, apiKey, widgetVars >>

handleMouseMove(e, dab) ==
    /\ CanvasTakesMouse
    /\ IF ~isDragging
       THEN UNCHANGED app
       ELSE IF tool = HAND
       THEN LET dx == e.x - LastOr(lastPos.x, e.x)
                dy == e.y - LastOr(lastPos.y, e.y)
            IN  /\ transform' = [transform EXCEPT !.x = RAdd(@, RInt(dx)),
                                                  !.y = RAdd(@, RInt(dy))]
                /\ lastPos' = [set |-> TRUE, x |-> e.x, y |-> e.y]
                /\ UNCHANGED << imageVars, tool, isDragging, maskVars,
                                objectSource, decoding, callVars, apiKey, widgetVars >>
       ELSE /\ mask' = PaintMask(mask, dab)
            /\ UNCHANGED << imageVars, viewVars, history, objectSource,
                            decoding, callVars, apiKey, widgetVars >>

\* onMouseUp, and onMouseLeave (which also follows the overlay's appearing)
handleMouseUp ==
    /\ CanvasShown
    /\ history' = IF isDragging /\ tool = BRUSH
                  THEN SaveHistory(history, mask) ELSE history
    /\ isDragging' = FALSE
    /\ lastPos' = NoPos
    /\ UNCHANGED << imageVars, tool, transform, mask, objectSource,
                    decoding, callVars, apiKey, widgetVars >>

\* handleUndo putting back the snapshot it has just removed
handleUndoRestoresRemoved ==
    IF Len(history) <= 1
    THEN UNCHANGED app
    ELSE /\ history' = SubSeq(history, 1, Len(history) - 1)
         /\ mask' = IF mask # NoCanvas
                    THEN PutImageData(mask, history[Len(history)]) ELSE mask
         /\ UNCHANGED << imageVars, viewVars, objectSource, decoding,
                         callVars, apiKey, widgetVars >>

\* the undo button, and Ctrl/Cmd+Z (bound in every appState)
handleUndo ==
    IF Len(history) <= 1
    THEN UNCHANGED app
    ELSE LET newHistory    == SubSeq(history, 1, Len(history) - 1)
             previousState == newHistory[Len(newHistory)]
         IN  /\ history' = newHistory
             /\ mask' = IF mask # NoCanvas
                        THEN PutImageData(mask, previousState) ELSE mask
             /\ UNCHANGED << imageVars, viewVars, objectSource, decoding,
                             callVars, apiKey, widgetVars >>

\* handleResetMask() on mask c and history h: << mask, history >> afterwards
ResetMask(c, h) ==
    IF c # NoCanvas
    THEN << ClearRect(c), SaveHistory(h, ClearRect(c)) >>
    ELSE << c, h >>

\* the reset button, rendered while appState is not COMPARING
handleResetMask ==
    /\ appState # COMPARING
    /\ mask' = ResetMask(mask, history)[1]
    /\ history' = ResetMask(mask, history)[2]
    /\ UNCHANGED << imageVars, viewVars, objectSource, decoding, callVars,
                    apiKey, widgetVars >>

\* the tool buttons (rendered while appState is not COMPARING) and the b / h keys
setTool(t) ==
    /\ tool' = t
    /\ UNCHANGED << imageVars, transform, isDragging, lastPos, maskVars,
                    objectSource, decoding, callVars, apiKey, widgetVars >>

(* ------------------------------------------------------------------ *)
(* AI operations                                                        *)
(* ------------------------------------------------------------------ *)

\* ctx.drawImage(src, 0, 0) on a fresh (transparent) canvas of src's size
DrawImage(dst, src) == [dst EXCEPT !.data = src.data]

\* the loop of getMaskDataUrl rounding alpha at one half instead of testing
\* alpha > 0
RECURSIVE BinaryFromRounded(_, _)
BinaryFromRounded(data, i) ==
    IF i > Len(data) THEN data
    ELSE LET alpha == data[i + 3]
             v     == IF alpha > 127 THEN 255 ELSE 0
         IN  BinaryFromRounded([data EXCEPT ![i] = v, ![i + 1] = v,
                                            ![i + 2] = v, ![i + 3] = 255], i + 4)

\* the loop of getMaskDataUrl over the RGBA bytes, from (1-based) index i
RECURSIVE BinaryFrom(_, _)
BinaryFrom(data, i) ==
    IF i > Len(data) THEN data
    ELSE LET alpha == data[i + 3]
             v     == IF alpha > 0 THEN 255 ELSE 0
         IN  BinaryFrom([data EXCEPT ![i] = v, ![i + 1] = v, ![i + 2] = v,
                                     ![i + 3] = 255], i + 4)

\* getMaskDataUrl(): null (NoCanvas) without a mask canvas or without a 2d
\* context for the temporary canvas (ctxOk), else the black / white image
GetMaskDataUrl(c, ctxOk) ==
    IF c = NoCanvas THEN NoCanvas
    ELSE IF ~ctxOk THEN NoCanvas
    ELSE LET tempCanvas == DrawImage(NewCanvas(c.w, c.h), c)
         IN  [tempCanvas EXCEPT !.data = BinaryFrom(tempCanvas.data, 1)]

\* a call of placeObjectInImage / eraseObjectInImage that has been made
NewRequest(kind, maskDataUrl) ==
    [kind |-> kind, base |-> baseImage, maskUrl |-> maskDataUrl,
     object |-> IF kind = "place" THEN objectSource ELSE NoObject,
     stage |-> "api", tw |-> 0, th |-> 0, rw |-> 0, rh |-> 0]

\* The body shared by handlePlaceObject and handleErase once their arguments are
\* known.  missing: the handler's own precondition test.  A missing API key
\* makes getAiClient throw inside the service call, whose rejection reaches the
\* catch block before any other event.
StartOperation(kind, missing, ctxOk) ==
    IF missing
    THEN /\ alertMsg' = kind \o "-missing"
         /\ UNCHANGED << imageVars, viewVars, maskVars, objectSource, decoding,
                         requests, apiKey, widgetVars >>
    ELSE LET maskDataUrl == GetMaskDataUrl(mask, ctxOk)
         IN  IF maskDataUrl = NoCanvas \/ ~apiKey
             THEN /\ appState' = IDLE
                  /\ alertMsg' = kind \o "-failed"
                  /\ UNCHANGED << baseImage, processedImage, viewVars, maskVars,
                                  objectSource, decoding, requests, apiKey, widgetVars >>
             ELSE /\ appState' = PROCESSING
                  /\ requests' = requests (+) SetToBag({ NewRequest(kind, maskDataUrl) })
                  /\ UNCHANGED << baseImage, processedImage, viewVars, maskVars,
                                  objectSource, decoding, alertMsg, apiKey, widgetVars >>

\* the place button: rendered while appState is not COMPARING, disabled without
\* a base image or an object
handlePlaceObject(ctxOk) ==
    /\ appState # COMPARING
    /\ baseImage # NoImage /\ objectSource # NoObject
    /\ StartOperation("place",
           baseImage = NoImage \/ objectSource = NoObject \/ mask = NoCanvas,
           ctxOk)

\* the erase button: rendered while appState is not COMPARING, disabled without
\* a base image
handleErase(ctxOk) ==
    /\ appState # COMPARING
    /\ baseImage # NoImage
    /\ StartOperation("erase", baseImage = NoImage \/ mask = NoCanvas, ctxOk)

\* a catch block that alerts and forgets setAppState(IDLE)
OperationFailedKeepsState(r) ==
    /\ alertMsg' = r.kind \o "-failed"
    /\ requests' = requests (-) SetToBag({r})
    /\ UNCHANGED << imageVars, viewVars, maskVars, objectSource, decoding,
                    apiKey, widgetVars >>

\* catch (error) { alert(...); setAppState(IDLE) } of request r
OperationFailed(r) ==
    /\ appState' = IDLE
    /\ alertMsg' = r.kind \o "-failed"
    /\ requests' = requests (-) SetToBag({r})
    /\ UNCHANGED << baseImage, processedImage, viewVars, maskVars, objectSource,
                    decoding, apiKey, widgetVars >>

\* The service call of r resolves with an image of size w x h.  The handler goes
\* on to read maskCanvasRef.current.width, which throws (into the catch block)
\* when the ref is null, and starts resizeImage.
ApiResolve(r, w, h) ==
    /\ BagIn(r, requests) /\ r.stage = "api"
    /\ IF mask = NoCanvas
       THEN OperationFailed(r)
       ELSE /\ requests' = (requests (-) SetToBag({r})) (+)
                   SetToBag({ [r EXCEPT !.stage = "resize",
                                        !.tw = mask.w, !.th = mask.h,
                                        !.rw = w, !.rh = h] })
            /\ UNCHANGED << imageVars, viewVars, maskVars, objectSource,
                            decoding, alertMsg, apiKey, widgetVars >>

\* The service call of r rejects, or its response holds no image part
ApiReject(r) ==
    /\ BagIn(r, requests) /\ r.stage = "api"
    /\ OperationFailed(r)

\* resizeImage(base64Str, width, height) as resolved by its img.onload: the
\* image drawn at width x height, or base64Str itself without a 2d context
ResizeImage(r, ctxOk) ==
    IF ctxOk
    THEN [name |-> r.base.name, gen |-> r.base.gen + 1, w |-> r.tw, h |-> r.th]
    ELSE [name |-> r.base.name, gen |-> r.base.gen + 1, w |-> r.rw, h |-> r.rh]

\* resizeImage of r resolves; the handler sets the result.  The commit renders
\* the ComparisonSlider; if it was not rendered before, it is mounted with its
\* initial state.
ResizeDone(r, ctxOk) ==
    /\ BagIn(r, requests) /\ r.stage = "resize"
    /\ processedImage' = ResizeImage(r, ctxOk)
    /\ appState' = COMPARING
    /\ requests' = requests (-) SetToBag({r})
    /\ sliderPosition' = IF CanvasShown THEN RInt(50) ELSE sliderPosition
    /\ sliderDragging' = IF CanvasShown THEN FALSE ELSE sliderDragging
    /\ UNCHANGED << baseImage, viewVars, maskVars, objectSource, decoding,
                    alertMsg, apiKey, brushSize >>

\* the apply button, rendered in COMPARING
applyChanges ==
    /\ appState = COMPARING
    /\ IF processedImage # NoImage
       THEN /\ baseImage' = processedImage
            /\ processedImage' = NoImage
            /\ appState' = IDLE
            /\ mask' = ResetMask(mask, history)[1]
            /\ history' = ResetMask(mask, history)[2]
            /\ decoding' = MaskInitEffect(baseImage, processedImage, mask')
            /\ UNCHANGED << viewVars, objectSource, callVars, apiKey, widgetVars >>
       ELSE UNCHANGED app

\* a discard that also clears the mask, as applyChanges does
discardChangesResetsMask ==
    /\ appState = COMPARING
    /\ appState' = IDLE
    /\ processedImage' = NoImage
    /\ mask' = ResetMask(mask, history)[1]
    /\ history' = ResetMask(mask, history)[2]
    /\ UNCHANGED << baseImage, viewVars, objectSource, decoding, callVars,
                    apiKey, widgetVars >>

\* the discard button, rendered in COMPARING
discardChanges ==
    /\ appState = COMPARING
    /\ appState' = IDLE
    /\ processedImage' = NoImage
    /\ UNCHANGED << baseImage, viewVars, maskVars, objectSource, decoding,
                    callVars, apiKey, widgetVars >>

(* ------------------------------------------------------------------ *)
(* Zoom, brush size                                                     *)
(* ------------------------------------------------------------------ *)

\* handleWheel's update moving the offset by the requested factor delta, not by
\* the ratio of the clamped scale to the old one
ZoomAtByDelta(prev, mouseX, mouseY, delta) ==
    LET newK == RMax(Rat(1, 10), RMin(RMul(prev.k, delta), RInt(5)))
    IN  [x |-> RSub(RInt(mouseX), RMul(RSub(RInt(mouseX), prev.x), delta)),
         y |-> RSub(RInt(mouseY), RMul(RSub(RInt(mouseY), prev.y), delta)),
         k |-> newK]

\* the functional update of handleWheel on transform prev, for a wheel event at
\* container offset (mouseX, mouseY) with factor delta
ZoomAt(prev, mouseX, mouseY, delta) ==
    LET newK   == RMax(Rat(1, 10), RMin(RMul(prev.k, delta), RInt(5)))
        kRatio == RDiv(newK, prev.k)
    IN  [x |-> RSub(RInt(mouseX), RMul(RSub(RInt(mouseX), prev.x), kRatio)),
         y |-> RSub(RInt(mouseY), RMul(RSub(RInt(mouseY), prev.y), kRatio)),
         k |-> newK]

\* onWheel of the canvas
handleWheel(e, deltaY) ==
    /\ CanvasTakesMouse
    /\ IF appState # IDLE
       THEN UNCHANGED app
       ELSE LET zoomIntensity == Rat(1, 10)
                delta  == IF deltaY > 0 THEN RSub(RInt(1), zoomIntensity)
                                        ELSE RAdd(RInt(1), zoomIntensity)
                mouseX == e.x - ContainerLeft
                mouseY == e.y - ContainerTop
            IN  /\ transform' = ZoomAt(transform, mouseX, mouseY, delta)
                /\ UNCHANGED << imageVars, tool, isDragging, lastPos, maskVars,
                                objectSource, decoding, callVars, apiKey,
                                widgetVars >>

Max(a, b) == IF a >= b THEN a ELSE b
Min(a, b) == IF a <= b THEN a ELSE b

\* onChange of the brush-size range input, rendered while appState is not
\* COMPARING
setBrushSize(v) ==
    /\ appState # COMPARING
    /\ brushSize' = v
    /\ UNCHANGED << imageVars, viewVars, maskVars, objectSource, decoding,
                    callVars, apiKey, sliderPosition, sliderDragging >>

\* the brush keys acting whatever the tool is
BrushShortcutAnyTool(key, inField) ==
    IF inField
    THEN UNCHANGED app
    ELSE /\ brushSize' = IF key \in { "[", "-" }
                         THEN Max(5, brushSize - 5)
                         ELSE Min(100, brushSize + 5)
         /\ UNCHANGED << imageVars, viewVars, maskVars, objectSource, decoding,
                         callVars, apiKey, sliderPosition, sliderDragging >>

\* handleKeyDown for the keys [ - ] =.  inField: the focus is in an INPUT or a
\* TEXTAREA.
BrushShortcut(key, inField) ==
    IF inField \/ tool # BRUSH
    THEN UNCHANGED app
    ELSE /\ brushSize' = IF key \in { "[", "-" }
                         THEN Max(5, brushSize - 5)
                         ELSE Min(100, brushSize + 5)
         /\ UNCHANGED << imageVars, viewVars, maskVars, objectSource, decoding,
                         callVars, apiKey, sliderPosition, sliderDragging >>

(* ------------------------------------------------------------------ *)
(* ComparisonSlider                                                     *)
(* ------------------------------------------------------------------ *)

\* the component is rendered in place of the canvas
SliderMounted == ~CanvasShown

\* onMouseDown of the slider handle
SliderMouseDown ==
    /\ SliderMounted
    /\ sliderDragging' = TRUE
    /\ UNCHANGED << imageVars, viewVars, maskVars, objectSource, decoding,
                    callVars, apiKey, brushSize, sliderPosition >>

\* a mouseup anywhere in the window: the listener is installed while isDragging
SliderMouseUp ==
    /\ SliderMounted
    /\ IF ~sliderDragging
       THEN UNCHANGED app
       ELSE /\ sliderDragging' = FALSE
            /\ UNCHANGED << imageVars, viewVars, maskVars, objectSource,
                            decoding, callVars, apiKey, brushSize,
                            sliderPosition >>

\* the mousemove listener taking the cursor's offset as it is, not clamped to
\* the container
SliderMouseMoveUnclamped(clientX) ==
    /\ SliderMounted
    /\ IF ~sliderDragging
       THEN UNCHANGED app
       ELSE LET x == clientX - ContainerLeft
                percentage == RMul(Rat(x, ContainerW), RInt(100))
            IN  /\ sliderPosition' = percentage
                /\ UNCHANGED << imageVars, viewVars, maskVars, objectSource,
                                decoding, callVars, apiKey, brushSize,
                                sliderDragging >>

\* a mousemove anywhere in the window at clientX: the listener is installed
\* while isDragging.  The slider's container fills the canvas container.
SliderMouseMove(clientX) ==
    /\ SliderMounted
    /\ IF ~sliderDragging
       THEN UNCHANGED app
       ELSE LET x == Max(0, Min(clientX - ContainerLeft, ContainerW))
                percentage == RMul(Rat(x, ContainerW), RInt(100))
            IN  /\ sliderPosition' = percentage
                /\ UNCHANGED << imageVars, viewVars, maskVars, objectSource,
                                decoding, callVars, apiKey, brushSize,
                                sliderDragging >>

(* ------------------------------------------------------------------ *)
(* Specifications                                                       *)
(* ------------------------------------------------------------------ *)

\* an action of the flow that spends n of the run's MaxEvents
Spend(n) ==
    /\ events + n <= MaxEvents
    /\ events' = events + n

\* 1 when the step saves a snapshot / makes a call, else 0
Saved  == IF history' # history /\ history' # <<>> THEN 1 ELSE 0
Called == IF requests' # requests /\ BagCardinality(requests') > BagCardinality(requests)
          THEN 1 ELSE 0

\* The application flow: loading, painting, place / erase, compare, apply,
\* discard
Next ==
    \/ \E f \in Files, isBase \in BOOLEAN :
          handleFileUpload(f, isBase) /\ Spend(IF isBase THEN 1 ELSE 0)
    \/ \E f \in Files, isBase \in BOOLEAN :
          handleDrop(f, isBase) /\ Spend(IF isBase THEN 1 ELSE 0)
    \/ ClearObject /\ Spend(0)
    \/ \E img \in BagToSet(decoding) : ImgOnload(img) /\ Spend(0)
    \/ \E e \in MousePos, dab \in Dabs : handleMouseDown(e, dab) /\ Spend(0)
    \/ handleMouseUp /\ Spend(Saved)
    \/ handleUndo /\ Spend(0)
    \/ handleResetMask /\ Spend(Saved)
    \/ \E ctxOk \in BOOLEAN : handlePlaceObject(ctxOk) /\ Spend(Called)
    \/ \E ctxOk \in BOOLEAN : handleErase(ctxOk) /\ Spend(Called)
    \/ \E r \in BagToSet(requests), sz \in ResultSizes :
          ApiResolve(r, sz[1], sz[2]) /\ Spend(0)
    \/ \E r \in BagToSet(requests) : ApiReject(r) /\ Spend(0)
    \/ \E r \in BagToSet(requests), ctxOk \in BOOLEAN :
          ResizeDone(r, ctxOk) /\ Spend(0)
    \/ applyChanges /\ Spend(Saved)
    \/ discardChanges /\ Spend(0)

Spec == Init /\ [][Next]_vars

\* Editing the mask of one photo: brush strokes, tool changes, undo and reset,
\* with the history as long as the code lets it grow
NextMask ==
    \/ \E f \in Files : baseImage = NoImage /\ handleFileUpload(f, TRUE) /\ Spend(0)
    \/ \E img \in BagToSet(decoding) : ImgOnload(img) /\ Spend(0)
    \/ \E e \in MousePos, dab \in Dabs : handleMouseDown(e, dab) /\ Spend(0)
    \/ \E e \in MousePos, dab \in Dabs : handleMouseMove(e, dab) /\ Spend(0)
    \/ handleMouseUp /\ Spend(0)
    \/ handleUndo /\ Spend(0)
    \/ handleResetMask /\ Spend(0)
    \/ \E t \in {BRUSH, HAND} : setTool(t) /\ Spend(0)

InitMask == Init /\ apiKey = TRUE

SpecMask == InitMask /\ [][NextMask]_vars

\* Loading base images and initialising their masks.  The browser decodes a
\* data URL and calls img.onload: every pending decode ends.
Decoded == \E img \in BagToSet(decoding) : ImgOnload(img) /\ Spend(0)

NextLoad ==
    \/ \E f \in Files : handleFileUpload(f, TRUE) /\ Spend(1)
    \/ \E f \in Files : handleDrop(f, TRUE) /\ Spend(1)
    \/ Decoded
    \/ \E e \in MousePos, dab \in Dabs : handleMouseDown(e, dab) /\ Spend(0)
    \/ handleMouseUp /\ Spend(Saved)

SpecLoad == Init /\ [][NextLoad]_vars /\ WF_vars(Decoded)

\* 1 when the step changes the transform, else 0
Moved == IF transform' # transform THEN 1 ELSE 0

\* Viewing one photo: zooming with the wheel and panning with the hand tool
\* (MaxEvents wheel events, moves of the view and snapshots in one run)
NextView ==
    \/ \E f \in Files : baseImage = NoImage /\ handleFileUpload(f, TRUE) /\ Spend(0)
    \/ \E img \in BagToSet(decoding) : ImgOnload(img) /\ Spend(0)
    \/ \E t \in {BRUSH, HAND} : setTool(t) /\ Spend(0)
    \/ \E e \in ViewPos, dab \in Dabs : handleMouseDown(e, dab) /\ Spend(0)
    \/ \E e \in ViewPos, dab \in Dabs : handleMouseMove(e, dab) /\ Spend(Moved)
    \/ handleMouseUp /\ Spend(Saved)
    \/ \E e \in ViewPos, deltaY \in WheelDeltas : handleWheel(e, deltaY) /\ Spend(1)

SpecView == InitMask /\ [][NextView]_vars

\* Choosing the tool and the brush size
NextBrush ==
    \/ \E t \in {BRUSH, HAND} : setTool(t) /\ Spend(0)
    \/ \E v \in BrushInputs : setBrushSize(v) /\ Spend(0)
    \/ \E key \in BrushKeys, inField \in BOOLEAN :
          BrushShortcut(key, inField) /\ Spend(0)

SpecBrush == Init /\ [][NextBrush]_vars

\* Comparing results of one photo with the slider: erase requests (MaxEvents of
\* them) bring the application to COMPARING, discard takes it back
NextSlider ==
    \/ \E f \in Files : baseImage = NoImage /\ handleFileUpload(f, TRUE) /\ Spend(0)
    \/ \E img \in BagToSet(decoding) : ImgOnload(img) /\ Spend(0)
    \/ \E e \in MousePos, dab \in Dabs : handleMouseDown(e, dab) /\ Spend(0)
    \/ handleErase(TRUE) /\ Spend(Called)
    \/ \E r \in BagToSet(requests), sz \in ResultSizes :
          ApiResolve(r, sz[1], sz[2]) /\ Spend(0)
    \/ \E r \in BagToSet(requests) : ResizeDone(r, TRUE) /\ Spend(0)
    \/ discardChanges /\ Spend(0)
    \/ SliderMouseDown /\ Spend(0)
    \/ \E clientX \in SliderX : SliderMouseMove(clientX) /\ Spend(0)
    \/ SliderMouseUp /\ Spend(0)

SpecSlider == InitMask /\ [][NextSlider]_vars

(* ------------------------------------------------------------------ *)
(* Claims                                                               *)
(* ------------------------------------------------------------------ *)

\* every pixel of the canvas or snapshot has alpha 0
Transparent(c) == \A p \in 1..NPixels(c) : c.data[4 * p] = 0

\* the canvas shows exactly the snapshot
Shows(c, img) == c.w = img.w /\ c.h = img.h /\ c.data = img.data

\* C1: in every reachable state the history holds at most 10 snapshots.
C1_HistoryAtMostTen == Len(history) <= 10

\* C2: once the mask canvas exists, the oldest history entry is the fully
\* transparent mask (so undoing as far as undo goes leaves the mask clear).
C2_OldestEntryIsClear ==
    mask # NoCanvas => Len(history) >= 1 /\ Transparent(history[1])

\* C3: an undo with more than one history entry removes exactly the newest entry
\* and sets the mask's pixels to the entry that is then newest; with one entry
\* or none it changes neither the history nor the mask.
C3_UndoStep ==
    [][ handleUndo =>
          IF Len(history) > 1
          THEN /\ history' = SubSeq(history, 1, Len(history) - 1)
               /\ mask # NoCanvas
               /\ Shows(mask', history[Len(history) - 1])
          ELSE history' = history /\ mask' = mask ]_vars

\* an undo has acted on a history of several entries: only undo leaves a single
\* entry that is not the clear mask, and the mask shows that entry
C3_Witness ==
    /\ mask # NoCanvas
    /\ Len(history) = 1
    /\ ~Transparent(history[1])
    /\ Shows(mask, history[1])

\* the canvas has a painted region: some pixel with alpha > 0
HasRegion(c) == c # NoCanvas /\ \E p \in 1..NPixels(c) : c.data[4 * p] > 0

\* C4: a click on the place button without a base image, a mask or an object,
\* and a click on the erase button without a base image or a painted mask
\* region, sends no request and changes none of appState, baseImage,
\* processedImage, mask and history.
C4_NoRequestWithoutPreconditions ==
    [][ /\ (/\ \E ctxOk \in BOOLEAN : handlePlaceObject(ctxOk)
            /\ ~(baseImage # NoImage /\ mask # NoCanvas /\ objectSource # NoObject))
           => UNCHANGED << requests, imageVars, maskVars >>
        /\ (/\ \E ctxOk \in BOOLEAN : handleErase(ctxOk)
            /\ ~(baseImage # NoImage /\ HasRegion(mask)))
           => UNCHANGED << requests, imageVars, maskVars >> ]_vars

\* C5: the step that sends a place / erase request leaves appState PROCESSING;
\* when the service answers with an image the operation goes on (no failure is
\* reported, the request is not dropped) and, when the resize is done, it sets
\* processedImage to the result and appState to COMPARING; none of these steps
\* changes baseImage, the mask or the history.
C5_OperationSucceeds ==
    [][ /\ \A ctxOk \in BOOLEAN :
              (handlePlaceObject(ctxOk) \/ handleErase(ctxOk)) /\ Called = 1
              => appState' = PROCESSING /\ UNCHANGED << baseImage, maskVars >>
        /\ \A r \in BagToSet(requests), sz \in ResultSizes :
              ApiResolve(r, sz[1], sz[2])
              => /\ alertMsg' = alertMsg
                 /\ BagCardinality(requests') = BagCardinality(requests)
                 /\ UNCHANGED << imageVars, maskVars >>
        /\ \A r \in BagToSet(requests), ctxOk \in BOOLEAN :
              ResizeDone(r, ctxOk)
              => /\ processedImage' = ResizeImage(r, ctxOk)
                 /\ appState' = COMPARING
                 /\ UNCHANGED << baseImage, maskVars >> ]_vars

\* a step in which a place / erase operation whose preconditions held fails: the
\* mask cannot be exported or the API key is missing (at the click), the call
\* rejects or answers without an image part, or the handler throws after the
\* answer
OperationFails ==
    \/ \E ctxOk \in BOOLEAN :
          /\ mask # NoCanvas /\ (~ctxOk \/ ~apiKey)
          /\ handlePlaceObject(ctxOk) \/ handleErase(ctxOk)
    \/ \E r \in BagToSet(requests) : ApiReject(r)
    \/ \E r \in BagToSet(requests), sz \in ResultSizes :
          mask = NoCanvas /\ ApiResolve(r, sz[1], sz[2])

FailedMsgs == { "place-failed", "erase-failed" }

\* C6: the step in which a place / erase operation fails reports the failure,
\* leaves appState IDLE and changes none of baseImage, processedImage, the mask
\* and the history.
C6_FailureReturnsToIdle ==
    [][ OperationFails
        => /\ appState' = IDLE
           /\ alertMsg' \in FailedMsgs
           /\ UNCHANGED << baseImage, processedImage, maskVars >> ]_vars

\* an operation sent with a painted mask and a saved stroke has failed
C6_Witness ==
    /\ alertMsg \in FailedMsgs
    /\ apiKey
    /\ appState = IDLE
    /\ HasRegion(mask)
    /\ Len(history) = 2
    /\ requests = EmptyBag

\* img is the strict black / white image of canvas c
BinaryOf(c, img) ==
    /\ img.w = c.w /\ img.h = c.h
    /\ Len(img.data) = 4 * NPixels(c)
    /\ \A p \in 1..NPixels(c) :
          << img.data[4 * p - 3], img.data[4 * p - 2],
             img.data[4 * p - 1], img.data[4 * p] >>
          = IF c.data[4 * p] > 0 THEN << 255, 255, 255, 255 >>
                                 ELSE << 0, 0, 0, 255 >>

\* C7: the mask of every request sent has the mask canvas's dimensions and is,
\* pixel by pixel, opaque white where the canvas has alpha > 0 and opaque black
\* elsewhere; sending leaves the mask canvas and the history unchanged.
C7_ExportIsBinary ==
    [][ \A r \in BagToSet(requests') :
           r.stage = "api" /\ CopiesIn(r, requests') > CopiesIn(r, requests)
           => BinaryOf(mask, r.maskUrl) /\ UNCHANGED maskVars ]_vars

\* a request is in flight for a 2 x 1 mask whose first pixel is faintly painted
\* (alpha 1) and whose second is not: its mask is white, black
C7_Witness ==
    \E r \in BagToSet(requests) :
        /\ r.stage = "api"
        /\ mask.w = 2 /\ mask.data[4] = 1 /\ mask.data[8] = 0
        /\ r.maskUrl.data = << 255, 255, 255, 255, 0, 0, 0, 255 >>

\* C8: whenever a mask canvas exists, its width and height are those of the
\* current baseImage.
C8_MaskMatchesBase ==
    mask # NoCanvas /\ baseImage # NoImage
    => mask.w = baseImage.w /\ mask.h = baseImage.h

\* the mask is fresh: it exists, is fully transparent, and the history is the
\* one snapshot of it
FreshMask ==
    /\ mask # NoCanvas /\ Transparent(mask)
    /\ history = << GetImageData(mask) >>

\* C9: a load of a base image sets processedImage to null, appState to IDLE and
\* empties the history in the same step, and whenever a base image is loaded
\* without a mask canvas a fresh mask follows.
C9_LoadEndsWithFreshMask ==
    /\ [][ (\E f \in Files : handleFileUpload(f, TRUE) \/ handleDrop(f, TRUE))
           => processedImage' = NoImage /\ appState' = IDLE /\ history' = <<>> ]_vars
    /\ (baseImage # NoImage /\ mask = NoCanvas) ~> FreshMask

\* C10: applyChanges with a processed image makes it the baseImage, sets
\* processedImage to null and appState to IDLE, and leaves a fully transparent
\* mask whose snapshot is the newest history entry; with no processed image it
\* changes nothing.
C10_ApplyEffects ==
    [][ applyChanges
        => IF processedImage # NoImage
           THEN /\ baseImage' = processedImage
                /\ processedImage' = NoImage
                /\ appState' = IDLE
                /\ mask' # NoCanvas /\ Transparent(mask')
                /\ history' # <<>>
                /\ history'[Len(history')] = GetImageData(mask')
           ELSE UNCHANGED app ]_vars

\* C11: a discard sets appState to IDLE and processedImage to null and leaves
\* baseImage, the mask, the history, the transform and objectSource unchanged.
C11_DiscardKeepsWork ==
    [][ discardChanges
        => /\ appState' = IDLE
           /\ processedImage' = NoImage
           /\ UNCHANGED << baseImage, mask, history, transform, objectSource >>
      ]_vars

\* a result has been discarded: a request has been sent and has ended without a
\* failure, and the application is back in IDLE with the loaded photo and the
\* painted mask
C11_Witness ==
    /\ appState = IDLE /\ processedImage = NoImage
    /\ events >= 1 /\ requests = EmptyBag /\ alertMsg = "none"
    /\ baseImage \in Files
    /\ HasRegion(mask)

\* getImageCoords for container offset (cx, cy) under transform t
ImageCoords(t, cx, cy) ==
    [x |-> RDiv(RSub(RInt(cx), t.x), t.k), y |-> RDiv(RSub(RInt(cy), t.y), t.k)]

\* C12: for every wheel event handled in IDLE, the image-space point under the
\* mouse is the same under the transform before and the transform after.
C12_ZoomAnchored ==
    [][ \A e \in ViewPos, deltaY \in WheelDeltas :
           handleWheel(e, deltaY) /\ appState = IDLE
           => ImageCoords(transform', e.x - ContainerLeft, e.y - ContainerTop)
              = ImageCoords(transform, e.x - ContainerLeft, e.y - ContainerTop)
      ]_vars

\* a wheel event has been clamped at the upper limit (no product of the factors
\* 9/10 and 11/10 with 1 or with a fitted scale is 5) for a loaded photo
C12_Witness ==
    /\ transform.k = RInt(5)
    /\ mask # NoCanvas

\* C13: in every reachable state the zoom factor transform.k is at least 0.1 and
\* at most 5.
C13_ZoomWithinLimits ==
    /\ RLe(Rat(1, 10), transform.k)
    /\ RLe(transform.k, RInt(5))

\* C14: each mouse move of a drag with the hand tool adds (current position -
\* previous position) to transform.x and transform.y and leaves transform.k,
\* the mask and the history unchanged.
C14_PanFollowsMouse ==
    [][ \A e \in ViewPos, dab \in Dabs :
           handleMouseMove(e, dab) /\ isDragging /\ tool = HAND
           => /\ transform'.x = RAdd(transform.x, RInt(e.x - lastPos.x))
              /\ transform'.y = RAdd(transform.y, RInt(e.y - lastPos.y))
              /\ transform'.k = transform.k
              /\ UNCHANGED << mask, history >> ]_vars

\* C15: brushSize is within [5, 100] in every state; a brush-size shortcut
\* changes it only while the brush tool is selected, downwards for [ and -,
\* upwards for ] and =, by 5 or, where 5 would leave the range, up to the limit;
\* the range input sets it to the value chosen.
C15_BrushSizeWithinLimits ==
    /\ [](brushSize \in 5..100)
    /\ [][ /\ \A key \in BrushKeys, inField \in BOOLEAN :
                BrushShortcut(key, inField)
                => LET step == IF key \in { "[", "-" }
                               THEN brushSize - brushSize'
                               ELSE brushSize' - brushSize
                   IN  /\ step \in 0..5
                       /\ step < 5 => brushSize' \in { 5, 100 }
                       /\ tool # BRUSH => step = 0
           /\ \A v \in BrushInputs : setBrushSize(v) => brushSize' = v ]_vars

\* a shortcut has acted on a size set with the range input (93 is reached only
\* from 98, by [ or -), and the hand tool has been selected since
C15_Witness ==
    /\ tool = HAND
    /\ brushSize = 93

\* the cursor's horizontal offset in the slider's container, clamped to the
\* container, as a percentage of the container's width
OffsetPercent(clientX) ==
    LET offset  == clientX - ContainerLeft
        clamped == IF offset < 0 THEN 0
                   ELSE IF offset > ContainerW THEN ContainerW ELSE offset
    IN  Rat(100 * clamped, ContainerW)

\* C16: the slider position is within [0, 100] in every state and is 50 when the
\* slider is mounted; while the slider stays mounted the position changes only
\* in a mouse move during a drag (after a mouse-down on the handle, before the
\* next mouse-up), to the clamped offset of the cursor as a percentage of the
\* container's width.
C16_SliderPosition ==
    /\ [](RLe(RInt(0), sliderPosition) /\ RLe(sliderPosition, RInt(100)))
    /\ [][ /\ (~SliderMounted /\ SliderMounted')
              => sliderPosition' = RInt(50) /\ ~sliderDragging'
           /\ (SliderMounted /\ sliderPosition' # sliderPosition)
              => /\ sliderDragging /\ sliderDragging'
                 /\ \E clientX \in SliderX :
                       /\ SliderMouseMove(clientX)
                       /\ sliderPosition' = OffsetPercent(clientX)
           /\ (SliderMounted /\ SliderMounted' /\ sliderDragging' # sliderDragging)
              => SliderMouseDown \/ SliderMouseUp ]_vars

\* a drag has taken the cursor right of the container and has ended there: the
\* mounted slider stands at 100
C16_Witness ==
    /\ SliderMounted
    /\ ~sliderDragging
    /\ sliderPosition = RInt(100)

\* C17: whenever appState is COMPARING, processedImage is the result of a
\* request submitted with the current baseImage (the result of a request made
\* for image b is b's photo, one generation on).
C17_NoStaleResult ==
    appState = COMPARING
    => /\ processedImage.name = baseImage.name
       /\ processedImage.gen = baseImage.gen + 1

\* C18: at most one place / erase request is unsettled at any time.
C18_OneRequestInFlight == BagCardinality(requests) <= 1

====
